---------------------------- MODULE Spec2Model ----------------------------
(***************************************************************************)
(* The /upscale request pipeline of backend/main.py: validation, download, *)
(* decode, size guard, inference, encode, upload, status write, cleanup    *)
(* and the except handler, with the collaborators it acts on (the          *)
(* Firestore collection, the storage bucket, the temporary directory).     *)
(***************************************************************************)
EXTENDS Integers, Sequences, FiniteSets, TLC

(* ------------------------------ bounds -------------------------------- *)

\* Pipeline runs started in one behaviour.
MaxRuns == 2

(* ------------------------- program constants -------------------------- *)

max_size == 4000
netscale == 4

\* Worker processes/threads that may serve /upscale.
Workers == {"w1", "w2"}

\* Python values that may be None: <<>> is None, <<v>> is the value v.
PyNone == <<>>
Some(v) == <<v>>

Max(a, b) == IF a >= b THEN a ELSE b

(* ----------------------------- requests ------------------------------- *)

\* A JSON object body, as the dict request.json returns: a function from the
\* keys present to their values.  "other" stands for any key the handler
\* never reads.
MkDict(rid, url, uid, other) ==
    LET K == (IF rid # PyNone THEN {"requestId"} ELSE {})
             \cup (IF url # PyNone THEN {"imageUrl"} ELSE {})
             \cup (IF uid # PyNone THEN {"userId"} ELSE {})
             \cup (IF other THEN {"other"} ELSE {})
    IN  [k \in K |-> CASE k = "requestId" -> rid[1]
                       [] k = "imageUrl"  -> url[1]
                       [] k = "userId"    -> uid[1]
                       [] OTHER           -> "x"]

RequestIds == {"r1", "r2"}
UserIds == {"u1"}
ImageUrls == {"https://x/img.png"}

\* Bodies a client may post: no JSON at all, a JSON object (obj), or another
\* JSON value, here the lists [] and ["x"], which request.json returns as
\* Python lists.
ValidRequests ==
    { [json |-> TRUE, obj |-> TRUE,
       data |-> MkDict(Some(r), Some(u), uid, FALSE)] :
        r \in RequestIds, u \in ImageUrls,
        uid \in {PyNone} \cup {Some(x) : x \in UserIds} }

InvalidRequests ==
    { [json |-> TRUE, obj |-> TRUE,
       data |-> MkDict(rid, url, Some("u1"), FALSE)] :
        rid \in {PyNone, Some(""), Some("r1")},
        url \in {PyNone, Some(""), Some("https://x/img.png")} }
    \ ValidRequests

Requests ==
    ValidRequests \cup InvalidRequests
    \cup { [json |-> TRUE, obj |-> TRUE,
            data |-> MkDict(PyNone, PyNone, PyNone, FALSE)],
           [json |-> TRUE, obj |-> TRUE,
            data |-> MkDict(PyNone, PyNone, PyNone, TRUE)],
           [json |-> TRUE, obj |-> FALSE, data |-> << >>],
           [json |-> TRUE, obj |-> FALSE, data |-> << "x" >>],
           [json |-> FALSE, obj |-> FALSE,
            data |-> MkDict(PyNone, PyNone, PyNone, FALSE)] }

\* dict.get(key): the value, or None when the key is absent.
Get(data, key) == IF key \in DOMAIN data THEN Some(data[key]) ELSE PyNone

\* Python truthiness of `not v` for a value that is None or a string.
Falsy(v) == IF v = PyNone THEN TRUE ELSE v[1] = ""

\* `not data` for a dict or a list: true of the empty one.
EmptyDict(data) == DOMAIN data = {}

\* str() of a value inside an f-string.
Str(v) == IF v = PyNone THEN "None" ELSE v[1]

request_id(q) == Get(q.data, "requestId")
image_url(q) == Get(q.data, "imageUrl")
user_id(q) == Get(q.data, "userId")

\* The request reaches the try block.
Validated(q) ==
    /\ q.json
    /\ ~EmptyDict(q.data)
    /\ q.obj
    /\ ~Falsy(request_id(q))
    /\ ~Falsy(image_url(q))

(* ------------------------------ storage ------------------------------- *)

BucketName == "bucket"

BlobNameShared(uid, rid) == "users/" \o Str(uid) \o "/upscaled/output.jpg"
BlobNamePng(uid, rid) == "users/" \o Str(uid) \o "/upscaled/" \o rid \o ".png"
BlobName(uid, rid) == "users/" \o Str(uid) \o "/upscaled/" \o rid \o ".jpg"

\* blob.upload_from_filename: the object written replaces any object of that
\* name and starts without the public ACL.
PutBlobKeepOld(bs, name) ==
    LET n2 == IF name \in DOMAIN bs THEN name \o ".1" ELSE name
    IN  [n \in DOMAIN bs \cup {n2} |->
            IF n = n2 THEN [contentType |-> "image/jpeg", public |-> FALSE]
            ELSE bs[n]]
PutBlob(bs, name) ==
    [n \in DOMAIN bs \cup {name} |->
        IF n = name THEN [contentType |-> "image/jpeg", public |-> FALSE]
        ELSE bs[n]]

\* blob.public_url
PublicUrl(name) == "https://storage.googleapis.com/" \o BucketName \o "/" \o name

(* --------------------------- status records --------------------------- *)

\* DocumentReference.update: the given fields replace or add to the stored
\* ones, every other stored field is kept.
Merge(doc, fields) ==
    [f \in DOMAIN doc \cup DOMAIN fields |->
        IF f \in DOMAIN fields THEN fields[f] ELSE doc[f]]

CompletedFields(url) == [status |-> "completed", outputUrl |-> url]

FailedFieldsGeneric(e) == [status |-> "failed", error |-> "Internal error"]
FailedFields(e) == [status |-> "failed", error |-> e]

PendingDoc == [status |-> "pending"]

(* ----------------------------- responses ------------------------------ *)

NoResp == [code |-> 0]
ClientError(msg) == [code |-> 400, error |-> msg]
OkResponse(url) == [code |-> 200, success |-> TRUE, outputUrl |-> url]
ServerError(e) == [code |-> 500, error |-> e]

\* What the except block returns for the caught error e when its own status
\* write raised e2 (PyNone when it did not): the bare except discards e2.
SurfacedSecondary(e, e2) == IF e2 = PyNone THEN e ELSE e2[1]
Surfaced(e, e2) == e

\* The framework's answer when the view function raises.
UnhandledError == [code |-> 500, error |-> "Internal Server Error"]

\* What request.json does with a body that is not JSON: the framework aborts
\* the request with its own 4xx page, or (older releases) returns None.
NoJsonResponses ==
    { [code |-> 400, error |-> "Bad Request"],
      [code |-> 415, error |-> "Unsupported Media Type"],
      ClientError("No data provided") }

(* ------------------------------ the guard ----------------------------- *)

\* Pairs <<d, m>> of the dimensions drawn below for which the double product
\* d * (4000 / m) lands just under the exact integer d*4000/m, so that int()
\* yields one less (e.g. 4210 * (4000 / 4210) = 3999.9999999999995).
FloatBelow == { <<49, 196000>>, <<4210, 4210>>, <<196000, 196000>> }

\* int(d * scale_factor) with scale_factor = max_size / m.
ScaleDim(d, m) ==
    LET q == (d * max_size) \div m
    IN  IF (d * max_size) % m = 0 /\ <<d, m>> \in FloatBelow THEN q - 1 ELSE q

NeedsResizeHeightOnly(h, w) == h > max_size
NeedsResize(h, w) == Max(h, w) > max_size

\* Shapes cv2.imread may return in a pipeline run, <<h, w>>.
DecodeDims == { <<3000, 2000>>, <<3000, 6000>>, <<1, 10000>> }

\* Shapes the guard is examined on.
DimValues == { 1, 2, 3, 49, 1999, 2000, 3999, 4000, 4001, 4210, 6000, 8000,
               10000, 12000, 196000 }
GuardDims == DimValues \X DimValues

NoImg == <<>>

(* --------------------------- the inference mode ----------------------- *)

\* Lines 29-38: the arguments RealESRGANer is constructed with.
SelectModeSwapped(gpu) ==
    [scale |-> netscale, tile |-> IF gpu THEN 512 ELSE 0, tile_pad |-> 10,
     pre_pad |-> 0, half |-> gpu, gpu_id |-> IF gpu THEN Some(0) ELSE PyNone]
SelectMode(gpu) ==
    [scale |-> netscale, tile |-> IF ~gpu THEN 512 ELSE 0, tile_pad |-> 10,
     pre_pad |-> 0, half |-> gpu, gpu_id |-> IF gpu THEN Some(0) ELSE PyNone]

(* ------------------------------- state -------------------------------- *)

VARIABLES
    pc,        \* pc[w]: where worker w is in upscale()
    req,       \* req[w]: the request body being served
    hw,        \* hw[w]: the locals h, w (the decoded shape)
    img,       \* img[w]: shape of the local img
    output,    \* output[w]: shape of the local output
    err,       \* err[w]: str(e) of the exception caught, PyNone if none
    swallowed, \* swallowed[w]: the exception the bare except discarded
    calls,     \* calls[w]: collaborator calls made by the run, in order
    uploaded,  \* uploaded[w]: name of the blob this run uploaded
    resp,      \* resp[w]: the response returned
    tmpfiles,  \* tmpfiles[w]: temporary files the run created, still on disk
    writes,    \* writes[w]: status updates of the run that succeeded
    db,        \* the upscale_requests collection: id -> document
    blobs,     \* the bucket: name -> object
    runs,      \* runs started so far
    prevOk,    \* prevOk[w]: the worker's previous run, if it answered 200
    pool,      \* the request bodies clients post
    overlap,   \* overlap[w]: another run for the same requestId was in
               \* progress at some time during w's run
    use_gpu,   \* the module global use_gpu
    upsampler  \* the module global upsampler: the RealESRGANer's settings

vars == << pc, req, hw, img, output, err, swallowed, calls, uploaded, resp,
           tmpfiles, writes, db, blobs, runs, prevOk, pool, overlap, use_gpu,
           upsampler >>

IdleRequest ==
    [json |-> FALSE, obj |-> FALSE,
     data |-> MkDict(PyNone, PyNone, PyNone, FALSE)]

InitLocals ==
    /\ req = [w \in Workers |-> IdleRequest]
    /\ hw = [w \in Workers |-> NoImg]
    /\ img = [w \in Workers |-> NoImg]
    /\ output = [w \in Workers |-> NoImg]
    /\ err = [w \in Workers |-> PyNone]
    /\ swallowed = [w \in Workers |-> PyNone]
    /\ calls = [w \in Workers |-> <<>>]
    /\ uploaded = [w \in Workers |-> PyNone]
    /\ resp = [w \in Workers |-> NoResp]
    /\ tmpfiles = [w \in Workers |-> {}]
    /\ writes = [w \in Workers |-> 0]

\* Lines 24-38, run once when the module is loaded: the accelerator is there
\* or not, and the upsampler is built accordingly.
InitMode ==
    /\ use_gpu \in BOOLEAN
    /\ upsampler = SelectMode(use_gpu)

\* One worker serves requests; status documents are created by the client
\* before it calls the service, or are missing.
Init ==
    /\ pc = [w \in Workers |-> IF w = "w1" THEN "idle" ELSE "off"]
    /\ InitLocals
    /\ \E D \in SUBSET RequestIds : db = [r \in D |-> PendingDoc]
    /\ blobs = <<>>
    /\ runs = 0
    /\ prevOk = [w \in Workers |-> PyNone]
    /\ overlap = [w \in Workers |-> FALSE]
    /\ pool = Requests
    /\ InitMode

(* ------------------------------ helpers ------------------------------- *)

\* Where control goes when a statement of the try block raises.
OnRaiseRetry(at) == at
OnRaise(at) == "except"

Raise(w, e) ==
    /\ err' = [err EXCEPT ![w] = Some(e)]
    /\ pc' = [pc EXCEPT ![w] = OnRaise(pc[w])]

Goto(w, to) == pc' = [pc EXCEPT ![w] = to]

Call(w, c) == calls' = [calls EXCEPT ![w] = Append(@, c)]

UpdateOutcomesUpsert(rid) == { Some("503 ServiceUnavailable"), PyNone }

\* The outcomes of DocumentReference.update for document rid: the error it
\* raises, or PyNone when it succeeds.  The store may be unreachable at any
\* call; reached, it refuses to update a document that does not exist.
UpdateOutcomes(rid) ==
    { Some("503 ServiceUnavailable") }
    \cup (IF rid \in DOMAIN db THEN { PyNone } ELSE { Some("404 NotFound") })

Rid(w) == request_id(req[w])[1]

\* Worker w is inside upscale().
InRun(w) == pc[w] \notin {"idle", "off", "done"}

(* ------------------------------ actions ------------------------------- *)

\* A request arrives at a free worker.
Start(w) ==
    /\ pc[w] \in {"idle", "done"}
    /\ runs < MaxRuns
    /\ \E q \in pool : req' = [req EXCEPT ![w] = q]
    /\ Goto(w, "received")
    /\ hw' = [hw EXCEPT ![w] = NoImg]
    /\ img' = [img EXCEPT ![w] = NoImg]
    /\ output' = [output EXCEPT ![w] = NoImg]
    /\ err' = [err EXCEPT ![w] = PyNone]
    /\ swallowed' = [swallowed EXCEPT ![w] = PyNone]
    /\ calls' = [calls EXCEPT ![w] = <<>>]
    /\ uploaded' = [uploaded EXCEPT ![w] = PyNone]
    /\ resp' = [resp EXCEPT ![w] = NoResp]
    /\ tmpfiles' = [tmpfiles EXCEPT ![w] = {}]
    /\ writes' = [writes EXCEPT ![w] = 0]
    /\ runs' = runs + 1
    /\ prevOk' = [prevOk EXCEPT ![w] =
                    IF pc[w] = "done" /\ resp[w].code = 200
                    THEN Some([req |-> req[w],
                               outputUrl |-> resp[w].outputUrl,
                               names |-> DOMAIN blobs])
                    ELSE PyNone]
    /\ overlap' = [x \in Workers |->
                      IF x = w
                      THEN \E v \in Workers \ {w} :
                              InRun(v) /\ request_id(req[v]) = request_id(req'[w])
                      ELSE overlap[x]
                           \/ (InRun(x) /\ request_id(req[x]) = request_id(req'[w]))]
    /\ UNCHANGED << db, blobs, pool, use_gpu, upsampler >>

\* Lines 42-51: request.json, the two checks and, between them, the three
\* data.get calls, which are outside the try block: for a non-empty body that
\* is no dict (a list has no get) they raise AttributeError out of upscale().
Validate(w) ==
    /\ pc[w] = "received"
    /\ LET q == req[w] IN
        \/ /\ ~q.json
           /\ \E r \in NoJsonResponses : resp' = [resp EXCEPT ![w] = r]
           /\ Goto(w, "done")
        \/ /\ q.json
           /\ EmptyDict(q.data)
           /\ resp' = [resp EXCEPT ![w] = ClientError("No data provided")]
           /\ Goto(w, "done")
        \/ /\ q.json
           /\ ~EmptyDict(q.data)
           /\ ~q.obj
           /\ resp' = [resp EXCEPT ![w] = UnhandledError]
           /\ Goto(w, "done")
        \/ /\ q.json
           /\ ~EmptyDict(q.data)
           /\ q.obj
           /\ ~Validated(q)
           /\ resp' = [resp EXCEPT ![w] =
                         ClientError("Missing requestId or imageUrl")]
           /\ Goto(w, "done")
        \/ /\ Validated(q)
           /\ Goto(w, "fetch")
           /\ UNCHANGED resp
    /\ UNCHANGED << req, hw, img, output, err, swallowed, calls, uploaded,
                    tmpfiles, writes, db, blobs, runs, prevOk, pool,
                    overlap, use_gpu, upsampler >>

\* Lines 56-62: requests.get, raise_for_status, and the streamed copy into a
\* NamedTemporaryFile(delete=False).  requests.get is given no timeout: when
\* the source accepts the connection and then sends nothing, the read of the
\* headers (in requests.get) or of the body (in iter_content) never returns.
Fetch(w) ==
    /\ pc[w] = "fetch"
    /\ Call(w, "get")
    /\ \/ /\ \E e \in {"ConnectionError", "HTTPError"} : Raise(w, e)
          /\ UNCHANGED tmpfiles
       \/ /\ Raise(w, "ChunkedEncodingError")
          /\ tmpfiles' = [tmpfiles EXCEPT ![w] = @ \cup {"input"}]
       \/ /\ Goto(w, "decode")
          /\ tmpfiles' = [tmpfiles EXCEPT ![w] = @ \cup {"input"}]
          /\ UNCHANGED err
       \/ /\ Goto(w, "stalled")
          /\ \E f \in {{}, {"input"}} :
                tmpfiles' = [tmpfiles EXCEPT ![w] = @ \cup f]
          /\ UNCHANGED err
    /\ UNCHANGED << req, hw, img, output, swallowed, uploaded, resp, writes,
                    db, blobs, runs, prevOk, pool,
                    overlap, use_gpu, upsampler >>

\* Lines 65-68: cv2.imread returns None for bytes it cannot decode, and
\* img.shape then raises AttributeError.
Decode(w) ==
    /\ pc[w] = "decode"
    /\ Call(w, "imread")
    /\ \/ /\ Raise(w, "AttributeError")
          /\ UNCHANGED << hw, img >>
       \/ /\ \E d \in DecodeDims :
                /\ img' = [img EXCEPT ![w] = d]
                /\ hw' = [hw EXCEPT ![w] = d]
          /\ Goto(w, "guard")
          /\ UNCHANGED err
    /\ UNCHANGED << req, output, swallowed, uploaded, resp, tmpfiles, writes,
                    db, blobs, runs, prevOk, pool,
                    overlap, use_gpu, upsampler >>

\* Lines 69-75: the size guard.  cv2.resize raises for an empty target size.
Guard(w) ==
    /\ pc[w] = "guard"
    /\ LET h == hw[w][1]
           w0 == hw[w][2]
           new_w == ScaleDim(w0, Max(h, w0))
           new_h == ScaleDim(h, Max(h, w0))
       IN  \/ /\ NeedsResize(h, w0)
              /\ Call(w, "resize")
              /\ \/ /\ new_w = 0 \/ new_h = 0
                    /\ Raise(w, "cv2.error")
                    /\ UNCHANGED img
                 \/ /\ new_w > 0 /\ new_h > 0
                    /\ img' = [img EXCEPT ![w] = << new_h, new_w >>]
                    /\ Goto(w, "infer")
                    /\ UNCHANGED err
           \/ /\ ~NeedsResize(h, w0)
              /\ Goto(w, "infer")
              /\ UNCHANGED << img, err, calls >>
    /\ UNCHANGED << req, hw, output, swallowed, uploaded, resp, tmpfiles,
                    writes, db, blobs, runs, prevOk, pool,
                    overlap, use_gpu, upsampler >>

\* Line 79: upsampler.enhance(img, outscale=4).
Infer(w) ==
    /\ pc[w] = "infer"
    /\ Call(w, "enhance")
    /\ \/ /\ Raise(w, "RuntimeError")
          /\ UNCHANGED output
       \/ /\ output' = [output EXCEPT ![w] =
                          << netscale * img[w][1], netscale * img[w][2] >>]
          /\ Goto(w, "encode")
          /\ UNCHANGED err
    /\ UNCHANGED << req, hw, img, swallowed, uploaded, resp, tmpfiles,
                    writes, db, blobs, runs, prevOk, pool,
                    overlap, use_gpu, upsampler >>

\* Lines 82-84: a second NamedTemporaryFile(delete=False), then cv2.imwrite.
Encode(w) ==
    /\ pc[w] = "encode"
    /\ Call(w, "imwrite")
    /\ tmpfiles' = [tmpfiles EXCEPT ![w] = @ \cup {"output"}]
    /\ \/ Raise(w, "cv2.error")
       \/ /\ Goto(w, "upload")
          /\ UNCHANGED err
    /\ UNCHANGED << req, hw, img, output, swallowed, uploaded, resp, writes,
                    db, blobs, runs, prevOk, pool,
                    overlap, use_gpu, upsampler >>

\* Lines 88-94: blob.upload_from_filename.
Upload(w) ==
    /\ pc[w] = "upload"
    /\ Call(w, "upload")
    /\ LET name == BlobName(user_id(req[w]), Rid(w)) IN
        \/ /\ Raise(w, "GoogleCloudError")
           /\ UNCHANGED << blobs, uploaded >>
        \/ /\ blobs' = PutBlob(blobs, name)
           /\ uploaded' = [uploaded EXCEPT ![w] = Some(name)]
           /\ Goto(w, "make_public")
           /\ UNCHANGED err
    /\ UNCHANGED << req, hw, img, output, swallowed, resp, tmpfiles, writes,
                    db, runs, prevOk, pool,
                    overlap, use_gpu, upsampler >>

\* Lines 95-96: blob.make_public().
MakePublic(w) ==
    /\ pc[w] = "make_public"
    /\ Call(w, "make_public")
    /\ \/ /\ Raise(w, "Forbidden")
          /\ UNCHANGED blobs
       \/ /\ blobs' = [blobs EXCEPT ![uploaded[w][1]].public = TRUE]
          /\ Goto(w, "update")
          /\ UNCHANGED err
    /\ UNCHANGED << req, hw, img, output, swallowed, uploaded, resp, tmpfiles,
                    writes, db, runs, prevOk, pool,
                    overlap, use_gpu, upsampler >>

\* Lines 100-105: doc_ref.update with status completed.
UpdateCompleted(w) ==
    /\ pc[w] = "update"
    /\ Call(w, "update_completed")
    /\ \E e \in UpdateOutcomes(Rid(w)) :
       LET rid == Rid(w)
       IN  \/ /\ e # PyNone
              /\ Raise(w, e[1])
              /\ UNCHANGED << db, writes >>
           \/ /\ e = PyNone
              /\ db' = [db EXCEPT ![rid] =
                          Merge(@, CompletedFields(PublicUrl(uploaded[w][1])))]
              /\ writes' = [writes EXCEPT ![w] = @ + 1]
              /\ Goto(w, "cleanup")
              /\ UNCHANGED err
    /\ UNCHANGED << req, hw, img, output, swallowed, uploaded, resp, tmpfiles,
                    blobs, runs, prevOk, pool,
                    overlap, use_gpu, upsampler >>

\* Lines 108-111: the two os.remove calls and the success response.
Cleanup(w) ==
    /\ pc[w] = "cleanup"
    /\ \/ /\ Call(w, "remove_input")
          /\ Raise(w, "OSError")
          /\ UNCHANGED << tmpfiles, resp >>
       \/ /\ calls' = [calls EXCEPT ![w] = @ \o << "remove_input", "remove_output" >>]
          /\ Raise(w, "OSError")
          /\ tmpfiles' = [tmpfiles EXCEPT ![w] = @ \ {"input"}]
          /\ UNCHANGED resp
       \/ /\ calls' = [calls EXCEPT ![w] = @ \o << "remove_input", "remove_output" >>]
          /\ tmpfiles' = [tmpfiles EXCEPT ![w] = @ \ {"input", "output"}]
          /\ resp' = [resp EXCEPT ![w] = OkResponse(PublicUrl(uploaded[w][1]))]
          /\ Goto(w, "done")
          /\ UNCHANGED err
    /\ UNCHANGED << req, hw, img, output, swallowed, uploaded, writes, db,
                    blobs, runs, prevOk, pool,
                    overlap, use_gpu, upsampler >>

\* Lines 113-124: the handler: the status write with status failed, whose
\* own exception is discarded, and the 500 response.
Except(w) ==
    /\ pc[w] = "except"
    /\ Call(w, "update_failed")
    /\ \E e2 \in UpdateOutcomes(Rid(w)) :
       LET rid == Rid(w)
           e == err[w][1]
       IN  /\ \/ /\ e2 = PyNone
                 /\ db' = [db EXCEPT ![rid] = Merge(@, FailedFields(e))]
                 /\ writes' = [writes EXCEPT ![w] = @ + 1]
              \/ /\ e2 # PyNone
                 /\ UNCHANGED << db, writes >>
           /\ swallowed' = [swallowed EXCEPT ![w] = e2]
           /\ resp' = [resp EXCEPT ![w] = ServerError(Surfaced(e, e2))]
    /\ Goto(w, "done")
    /\ UNCHANGED << req, hw, img, output, err, uploaded, tmpfiles, blobs,
                    runs, prevOk, pool,
                    overlap, use_gpu, upsampler >>

Next ==
    \E w \in Workers :
          \/ Start(w)
          \/ Validate(w)
          \/ Fetch(w)
          \/ Decode(w)
          \/ Guard(w)
          \/ Infer(w)
          \/ Encode(w)
          \/ Upload(w)
          \/ MakePublic(w)
          \/ UpdateCompleted(w)
          \/ Cleanup(w)
          \/ Except(w)

Spec == Init /\ [][Next]_vars

\* The guard and the inference call on a decoded image of any of GuardDims:
\* a run that has downloaded and decoded its input.
GuardInit ==
    /\ pc = [w \in Workers |-> IF w = "w1" THEN "guard" ELSE "off"]
    /\ req = [w \in Workers |->
                IF w = "w1"
                THEN [json |-> TRUE, obj |-> TRUE,
                      data |-> MkDict(Some("r1"), Some("https://x/img.png"),
                                      Some("u1"), FALSE)]
                ELSE IdleRequest]
    /\ \E d \in GuardDims :
          /\ hw = [w \in Workers |-> IF w = "w1" THEN d ELSE NoImg]
          /\ img = [w \in Workers |-> IF w = "w1" THEN d ELSE NoImg]
    /\ output = [w \in Workers |-> NoImg]
    /\ err = [w \in Workers |-> PyNone]
    /\ swallowed = [w \in Workers |-> PyNone]
    /\ calls = [w \in Workers |-> IF w = "w1" THEN << "get", "imread" >> ELSE <<>>]
    /\ uploaded = [w \in Workers |-> PyNone]
    /\ resp = [w \in Workers |-> NoResp]
    /\ tmpfiles = [w \in Workers |-> IF w = "w1" THEN {"input"} ELSE {}]
    /\ writes = [w \in Workers |-> 0]
    /\ db = [r \in {"r1"} |-> PendingDoc]
    /\ blobs = <<>>
    /\ runs = 1
    /\ prevOk = [w \in Workers |-> PyNone]
    /\ overlap = [w \in Workers |-> FALSE]
    /\ pool = Requests
    /\ InitMode

GuardNext == \E w \in Workers : Guard(w) \/ Infer(w)

GuardSpec == GuardInit /\ [][GuardNext]_vars

\* The bodies posted when two workers are examined: well-formed ones, for
\* either requestId.
ConcRequests == { q \in ValidRequests : "userId" \in DOMAIN q.data }

\* Two workers serve requests at the same time, on a host without an
\* accelerator; the clients have created the status records.
ConcInit ==
    /\ pc = [w \in Workers |-> "idle"]
    /\ InitLocals
    /\ db = [r \in RequestIds |-> PendingDoc]
    /\ blobs = <<>>
    /\ runs = 0
    /\ prevOk = [w \in Workers |-> PyNone]
    /\ overlap = [w \in Workers |-> FALSE]
    /\ pool = ConcRequests
    /\ use_gpu = FALSE
    /\ upsampler = SelectMode(use_gpu)

ConcSpec == ConcInit /\ [][Next]_vars

(* ------------------------------- claims ------------------------------- *)

Range(s) == { s[i] : i \in DOMAIN s }

Responded(w) == pc[w] = "done" /\ resp[w].code \in {200, 500}

\* C1: when a run that passed validation returns its response (200 or 500),
\* every temporary file the run created has been removed.
C1_TempFilesRemoved ==
    \A w \in Workers : Responded(w) => tmpfiles[w] = {}

\* The store answered every status update the run has made so far.
C2_StoreReachable(w) ==
    /\ err[w] # Some("503 ServiceUnavailable")
    /\ swallowed[w] = PyNone

\* C2: a run that passed validation, against an existing status record (and
\* a store that answers), writes that record exactly once, to completed or
\* failed: never twice, and it has written it once by the time it responds.
C2_ExactlyOneTerminalWrite ==
    \A w \in Workers :
        (pc[w] \notin {"idle", "off", "received"} /\ Validated(req[w])
            /\ Rid(w) \in DOMAIN db /\ C2_StoreReachable(w))
        => /\ writes[w] <= 1
           /\ pc[w] = "done" =>
                /\ writes[w] = 1
                /\ db[Rid(w)].status \in {"completed", "failed"}

\* C3: in every reachable state every status record has outputUrl iff its
\* status is completed, and error iff its status is failed.
C3_FieldsMatchStatus ==
    \A r \in DOMAIN db :
        /\ ("outputUrl" \in DOMAIN db[r]) <=> (db[r].status = "completed")
        /\ ("error" \in DOMAIN db[r]) <=> (db[r].status = "failed")

C4_MissingOrEmpty(q) ==
    \/ ~q.json
    \/ ~q.obj
    \/ "requestId" \notin DOMAIN q.data
    \/ "imageUrl" \notin DOMAIN q.data
    \/ q.data["requestId"] = ""
    \/ q.data["imageUrl"] = ""

\* C4: a request whose requestId or imageUrl is missing or empty is answered
\* with a 4xx and makes no collaborator call; the step that answers it leaves
\* the status store and the bucket unchanged.
C4_InvalidRequestNoEffects ==
    [][\A w \in Workers :
        (pc'[w] \notin {"idle", "off"} /\ C4_MissingOrEmpty(req'[w]))
        => /\ pc'[w] \in {"received", "done"}
           /\ calls'[w] = <<>>
           /\ pc'[w] = "done" => resp'[w].code \in 400..499
           /\ pc[w] = "received" => (db' = db /\ blobs' = blobs)]_vars

NoRepeats(s) == \A i, j \in DOMAIN s : s[i] = s[j] => i = j

\* C5: a statement of the try block that raises sends the run to the handler;
\* from there on the run makes no call but the status=failed write, which is
\* the handler's next action; no call is made twice in a run; and when the
\* bytes cannot be decoded neither cv2.resize nor enhance is called.
C5_FailFast ==
    [][\A w \in Workers :
        /\ (err[w] = PyNone /\ err'[w] # PyNone) => pc'[w] = "except"
        /\ (pc[w] = "except" /\ pc'[w] # "except")
            => calls'[w] = Append(calls[w], "update_failed")
        /\ (err[w] # PyNone /\ err'[w] # PyNone)
            => calls'[w] \in {calls[w], Append(calls[w], "update_failed")}
        /\ NoRepeats(calls'[w])
        /\ err'[w] = Some("AttributeError")
            => Range(calls'[w]) \cap {"resize", "enhance"} = {}]_vars

C5_Witness ==
    \E w \in Workers :
        /\ pc[w] = "done"
        /\ err[w] = Some("AttributeError")
        /\ calls[w] = << "get", "imread", "update_failed" >>

\* C6: when the handler runs for error e, the caller gets a 500 whose error
\* is the description of e, and, the record being present and the store
\* reachable, the record ends at status failed with that same description;
\* the handler's write fails only for a missing record or an unreachable
\* store.
C6_FailureRecorded ==
    [][\A w \in Workers :
        (pc[w] = "except" /\ pc'[w] # "except")
        => /\ pc'[w] = "done"
           /\ resp'[w].code = 500
           /\ resp'[w].error = err[w][1]
           /\ (swallowed'[w] = PyNone)
                => /\ db'[Rid(w)].status = "failed"
                   /\ db'[Rid(w)].error = err[w][1]
           /\ (swallowed'[w] # PyNone)
                => \/ swallowed'[w] = Some("503 ServiceUnavailable")
                   \/ Rid(w) \notin DOMAIN db]_vars

C6_Witness ==
    \E w \in Workers :
        /\ pc[w] = "done"
        /\ err[w] = Some("HTTPError")
        /\ swallowed[w] = PyNone
        /\ db[Rid(w)].status = "failed"
        /\ db[Rid(w)].error = "HTTPError"
        /\ resp[w] = [code |-> 500, error |-> "HTTPError"]

\* C7: when the handler's own status write fails, the run still ends with a
\* 500 carrying the description of the original error, and the stored
\* records are as they were before that write.
C7_SecondaryFailureSwallowed ==
    [][\A w \in Workers :
        (pc[w] = "except" /\ pc'[w] # "except" /\ swallowed'[w] # PyNone)
        => /\ pc'[w] = "done"
           /\ resp'[w] = [code |-> 500, error |-> err[w][1]]
           /\ db' = db]_vars

C7_Witness ==
    \E w \in Workers :
        /\ pc[w] = "done"
        /\ err[w] = Some("HTTPError")
        /\ swallowed[w] = Some("503 ServiceUnavailable")
        /\ resp[w] = [code |-> 500, error |-> "HTTPError"]
        /\ Rid(w) \in DOMAIN db
        /\ db[Rid(w)].status = "pending"

C8_Tail ==
    << "enhance", "imwrite", "upload", "make_public", "update_completed",
       "remove_input", "remove_output" >>

C8_Orders ==
    { << "get", "imread" >> \o C8_Tail, << "get", "imread", "resize" >> \o C8_Tail }

C8_Path(q) ==
    "users/" \o q.data["userId"] \o "/upscaled/" \o q.data["requestId"] \o ".jpg"

\* C8: a run answers 200 only after get, imread (with the guard), enhance,
\* imwrite, upload with make_public, and the status write, in this order and
\* once each; that write sets status completed and outputUrl to the URL of
\* the blob the run uploaded, which for a request naming its userId is at
\* users/{userId}/upscaled/{requestId}.jpg; the response carries that URL.
C8_SuccessAfterAllStages ==
    [][\A w \in Workers :
        /\ (pc'[w] = "done" /\ resp'[w].code = 200)
            => /\ calls'[w] \in C8_Orders
               /\ uploaded'[w] # PyNone
               /\ uploaded'[w][1] \in DOMAIN blobs'
               /\ resp'[w].outputUrl =
                    "https://storage.googleapis.com/bucket/" \o uploaded'[w][1]
               /\ "userId" \in DOMAIN req'[w].data
                    => uploaded'[w][1] = C8_Path(req'[w])
        /\ (pc[w] = "update" /\ pc'[w] = "cleanup")
            => /\ db'[Rid(w)].status = "completed"
               /\ db'[Rid(w)].outputUrl =
                    "https://storage.googleapis.com/bucket/" \o uploaded[w][1]
               /\ uploaded[w][1] \in DOMAIN blobs]_vars

C8_Witness ==
    \E w \in Workers :
        /\ pc[w] = "done"
        /\ resp[w].code = 200
        /\ "resize" \in Range(calls[w])
        /\ resp[w].outputUrl =
             "https://storage.googleapis.com/bucket/users/u1/upscaled/r1.jpg"
        /\ db["r1"].outputUrl = resp[w].outputUrl

\* C9: the image handed to enhance has max(h', w') <= 4000, is the decoded
\* image itself when max(h, w) <= 4000, and is in neither dimension larger
\* than the decoded image.
C9_GuardBounds ==
    \A w \in Workers :
        "enhance" \in Range(calls[w])
        => /\ Max(img[w][1], img[w][2]) <= 4000
           /\ Max(hw[w][1], hw[w][2]) <= 4000 => img[w] = hw[w]
           /\ img[w][1] <= hw[w][1]
           /\ img[w][2] <= hw[w][2]

C9_Witness ==
    \E w \in Workers :
        /\ "enhance" \in Range(calls[w])
        /\ hw[w] = << 12000, 6000 >>
        /\ img[w] = << 4000, 2000 >>

\* out is d * (4000 / m) rounded to the nearest integer.
C10_Nearest(out, d, m) ==
    LET diff == d * 4000 - out * m
    IN  2 * (IF diff >= 0 THEN diff ELSE -diff) <= m

\* C10: for an image with max(h, w) > 4000 the resize does not fail, and each
\* dimension it yields is the input dimension times 4000 / max(h, w) rounded
\* to the nearest integer, and at least 1.
C10_RoundedAtLeastOne ==
    \A w \in Workers :
        (pc[w] # "guard" /\ hw[w] # NoImg /\ Max(hw[w][1], hw[w][2]) > 4000)
        => /\ err[w] # Some("cv2.error")
           /\ \A i \in {1, 2} :
                /\ img[w][i] >= 1
                /\ C10_Nearest(img[w][i], hw[w][i], Max(hw[w][1], hw[w][2]))

\* C11: when a run answers 200 and the same worker's previous run answered
\* 200 for the same requestId, userId and imageUrl, the record is at status
\* completed with the outputUrl the first run returned, the bucket holds the
\* same object names as after the first run, and the blob is at that path.
C11_RerunOverwrites ==
    \A w \in Workers :
        (pc[w] = "done" /\ resp[w].code = 200 /\ prevOk[w] # PyNone
            /\ prevOk[w][1].req = req[w])
        => /\ db[Rid(w)].status = "completed"
           /\ db[Rid(w)].outputUrl = prevOk[w][1].outputUrl
           /\ resp[w].outputUrl = prevOk[w][1].outputUrl
           /\ DOMAIN blobs = prevOk[w][1].names
           /\ uploaded[w][1] \in DOMAIN blobs

C11_Witness ==
    \E w \in Workers :
        /\ pc[w] = "done"
        /\ resp[w].code = 200
        /\ prevOk[w] # PyNone
        /\ prevOk[w][1].req = req[w]
        /\ DOMAIN blobs = {"users/u1/upscaled/r1.jpg"}
        /\ db["r1"].outputUrl =
             "https://storage.googleapis.com/bucket/users/u1/upscaled/r1.jpg"

\* A step of worker w inside upscale().
C12_Step(w) ==
    \/ Validate(w) \/ Fetch(w) \/ Decode(w) \/ Guard(w) \/ Infer(w)
    \/ Encode(w) \/ Upload(w) \/ MakePublic(w) \/ UpdateCompleted(w)
    \/ Cleanup(w) \/ Except(w)

\* C12: a run in the fetch stage can always go on: also when the source has
\* stalled, a step of the run (the read timing out with a fetch error) is
\* possible, so the worker is never blocked for good.
C12_FetchNeverBlocks ==
    \A w \in Workers : pc[w] \in {"fetch", "stalled"} => ENABLED C12_Step(w)

\* The last status write of w's run that succeeded.
LastWrite(w) ==
    IF "update_failed" \in Range(calls[w]) /\ swallowed[w] = PyNone
    THEN "failed"
    ELSE IF "remove_input" \in Range(calls[w]) THEN "completed" ELSE "none"

C13_Url(w) == "https://storage.googleapis.com/bucket/" \o C8_Path(req[w])

\* What a run that ended leaves behind when it ran alone: the record as its
\* last successful write set it, its blob at its own path, public once
\* make_public returned, and a response that carries its own URL or error.
C13_AsAlone(w) ==
    /\ LastWrite(w) = "completed"
        => /\ db[Rid(w)].status = "completed"
           /\ db[Rid(w)].outputUrl = C13_Url(w)
    /\ LastWrite(w) = "failed"
        => /\ db[Rid(w)].status = "failed"
           /\ db[Rid(w)].error = err[w][1]
    /\ uploaded[w] # PyNone
        => /\ uploaded[w][1] = C8_Path(req[w])
           /\ C8_Path(req[w]) \in DOMAIN blobs
           /\ blobs[C8_Path(req[w])].public
                <=> ("update_completed" \in Range(calls[w]))
    /\ resp[w].code = 200 => resp[w].outputUrl = C13_Url(w)
    /\ resp[w].code = 500 => resp[w].error = err[w][1]

\* C13: while two runs with different requestIds are in progress, a step of
\* one leaves the other's status record, blob, temporary files and locals as
\* they were; and a run that never overlapped a run for its own requestId
\* ends with the record, blob and response it would have ended with alone.
C13_NoInterference ==
    [][\A w \in Workers : \A v \in Workers \ {w} :
        /\ (pc'[w] # pc[w] /\ InRun(v) /\ pc'[w] \notin {"idle", "off"}
              /\ request_id(req'[w]) # request_id(req[v]))
            => /\ tmpfiles'[v] = tmpfiles[v]
               /\ resp'[v] = resp[v]
               /\ calls'[v] = calls[v]
               /\ err'[v] = err[v]
               /\ DOMAIN db' = DOMAIN db
               /\ Rid(v) \in DOMAIN db => db'[Rid(v)] = db[Rid(v)]
               /\ uploaded[v] # PyNone
                    => blobs'[uploaded[v][1]] = blobs[uploaded[v][1]]
               /\ (C8_Path(req[v]) \in DOMAIN blobs')
                    <=> (C8_Path(req[v]) \in DOMAIN blobs)
        /\ (pc'[w] = "done" /\ pc[w] # "done" /\ ~overlap'[w])
            => C13_AsAlone(w)']_vars

C13_Witness ==
    /\ pc["w1"] = "done" /\ pc["w2"] = "done"
    /\ DOMAIN db = {"r1", "r2"}
    /\ Rid("w1") = "r1" /\ Rid("w2") = "r2"
    /\ resp["w1"].code = 200
    /\ resp["w2"] = [code |-> 500, error |-> "RuntimeError"]
    /\ "upload" \in Range(calls["w1"])
    /\ Len(calls["w1"]) > 7 /\ Len(calls["w2"]) > 3
    /\ db["r1"].status = "completed" /\ db["r2"].status = "failed"
    /\ ~overlap["w1"] /\ ~overlap["w2"]

\* The userId the request is served under when the body omits the key.
C14_UserId(q) == IF "userId" \in DOMAIN q.data THEN q.data["userId"] ELSE ""

\* C14: the blob a run uploads is at users/{userId}/upscaled/{requestId}.jpg,
\* with the empty string for userId when the request omits it
\* (users//upscaled/{requestId}.jpg).
C14_OmittedUserIdIsEmpty ==
    \A w \in Workers :
        uploaded[w] # PyNone
        => /\ uploaded[w][1] =
                "users/" \o C14_UserId(req[w]) \o "/upscaled/" \o Rid(w) \o ".jpg"
           /\ uploaded[w][1] \in DOMAIN blobs

C15_UpdateErrors == { Some("404 NotFound"), Some("503 ServiceUnavailable") }

\* C15: no step creates or deletes a status record; for a run whose requestId
\* has no record, the completed write raises (not-found, when the store
\* answers) and leaves the store as it was, the handler's failed write fails
\* the same way and is discarded, and the run answers with a 500, never 200.
C15_NoRecordCreated ==
    [][/\ DOMAIN db' = DOMAIN db
       /\ \A w \in Workers :
            (pc'[w] \notin {"idle", "off", "received"} /\ Validated(req'[w])
                /\ Rid(w)' \notin DOMAIN db)
            => /\ db' = db
               /\ writes'[w] = 0
               /\ pc[w] = "update"
                    => /\ pc'[w] = "except"
                       /\ err'[w] \in C15_UpdateErrors
               /\ (pc[w] = "except" /\ pc'[w] # "except")
                    => swallowed'[w] \in C15_UpdateErrors
               /\ pc'[w] = "done"
                    => /\ resp'[w].code = 500
                       /\ Rid(w)' \notin DOMAIN db']_vars

C15_Witness ==
    \E w \in Workers :
        /\ pc[w] = "done"
        /\ Validated(req[w])
        /\ Rid(w) \notin DOMAIN db
        /\ "update_completed" \in Range(calls[w])
        /\ err[w] = Some("404 NotFound")
        /\ swallowed[w] = Some("404 NotFound")
        /\ resp[w] = [code |-> 500, error |-> "404 NotFound"]
        /\ uploaded[w] # PyNone

\* C16: every response to a body that lacks a usable requestId or imageUrl
\* (an empty object and an absent body included) is a client error whose
\* message is exactly "Missing requestId or imageUrl".
C16_ValidationMessage ==
    \A w \in Workers :
        (pc[w] = "done" /\ ~Validated(req[w]))
        => /\ resp[w].code \in 400..499
           /\ resp[w].error = "Missing requestId or imageUrl"

C17_ModeOf(gpu, u) ==
    /\ u.tile_pad = 10
    /\ gpu => (u.tile = 0 /\ u.half)
    /\ ~gpu => (u.tile = 512 /\ ~u.half)

\* C17: the inference mode is the one selected at construction in every
\* state (accelerator: tile 0 and half precision; none: tile 512 and full
\* precision; tile padding 10 either way), and no step of any request
\* changes it.
C17_ModeSelectedOnce ==
    [][/\ C17_ModeOf(use_gpu, upsampler)
       /\ C17_ModeOf(use_gpu', upsampler')
       /\ upsampler' = upsampler
       /\ use_gpu' = use_gpu]_vars

C17_Witness ==
    \E w \in Workers :
        /\ runs = 2
        /\ pc[w] = "done"
        /\ resp[w].code = 200
        /\ prevOk[w] # PyNone
        /\ "enhance" \in Range(calls[w])
        /\ use_gpu
        /\ upsampler.tile = 0 /\ upsampler.half /\ upsampler.tile_pad = 10

\* C18: in every reachable state, a record at status completed with
\* outputUrl u has a blob at the path u refers to, and that blob is public.
C18_CompletedUrlIsPublicBlob ==
    \A r \in DOMAIN db :
        db[r].status = "completed"
        => \E n \in DOMAIN blobs :
              /\ db[r].outputUrl = "https://storage.googleapis.com/bucket/" \o n
              /\ blobs[n].public

\* C19: a run that passed validation answers 200 exactly when the last
\* status write of the run that succeeded set status completed; a run that
\* answers 500 has not left the record at completed.
C19_ResponseAgreesWithRecord ==
    \A w \in Workers :
        (pc[w] = "done" /\ Validated(req[w]))
        => /\ (resp[w].code = 200) <=> (LastWrite(w) = "completed")
           /\ (resp[w].code = 500 /\ "update_completed" \in Range(calls[w])
                 /\ Rid(w) \in DOMAIN db)
                => db[Rid(w)].status # "completed"

=============================================================================
